---- MODULE Spec2Model ----
(***************************************************************************)
(* Model of invokeai/backend/model_manager/load/model_loaders/flux.py:     *)
(* the six registered loaders and their _load_model / _load_from_singlefile*)
(* methods, one action per statement that can end the call or change what  *)
(* the call has done so far.                                               *)
(***************************************************************************)
EXTENDS Integers, Sequences, FiniteSets, TLC

VARIABLES
    pc,               \* position of the current call ("idle", "done", or "<loader>_<line>")
    loader,           \* the loader class whose _load_model is running
    config,           \* concrete class of the `config` argument
    submodel_type,    \* the `submodel_type` argument
    env,              \* what the file system and the libraries will do in this call
    flux_conf,        \* local flux_conf (the parsed YAML document)
    dataclass_fields, \* local dataclass_fields
    filtered_data,    \* local filtered_data (a dict: items in insertion order)
    params,           \* local params (constructor keyword arguments after defaults)
    model,            \* local model
    sd,               \* local sd (the deserialized state dict)
    silenced,         \* TRUE while a SilenceWarnings() context is active
    empty_weights,    \* TRUE while an accelerate.init_empty_weights() context is active
    trace,            \* the statements the current call has executed, in order
    outcome,          \* "pending", "ok", or the exception that ended the call
    result,           \* the object the call returned
    prev              \* what the previous call of a repeated request did

vars == <<pc, loader, config, submodel_type, env, flux_conf, dataclass_fields,
          filtered_data, params, model, sd, silenced, empty_weights, trace,
          outcome, result, prev>>

inputs == <<loader, config, submodel_type, env>>
locals == <<flux_conf, dataclass_fields, filtered_data, params, model, sd>>
ctx    == <<silenced, empty_weights>>

(***************************************************************************)
(* Bounds of the checked input space.                                      *)
(***************************************************************************)
MaxDocLen == 3      \* most keys in a `params` mapping
NumValues == 2      \* distinct hyperparameter values

(***************************************************************************)
(* Classes, enumerations, registrations.                                   *)
(***************************************************************************)
Loaders ==
    {"FluxVAELoader", "ClipCheckpointModel", "T5Encoder8bCheckpointModel",
     "T5EncoderCheckpointModel", "FluxCheckpointModel",
     "FluxBnbQuantizednf4bCheckpointModel"}

SingleFileLoaders ==
    {"FluxVAELoader", "FluxCheckpointModel", "FluxBnbQuantizednf4bCheckpointModel"}

\* The (base, type, format) triple each class is registered under.
Registration(l) ==
    CASE l = "FluxVAELoader"              -> <<"Flux", "VAE", "Checkpoint">>
      [] l = "ClipCheckpointModel"        -> <<"Any", "CLIPEmbed", "Diffusers">>
      [] l = "T5Encoder8bCheckpointModel" -> <<"Any", "T5Encoder", "T5Encoder8b">>
      [] l = "T5EncoderCheckpointModel"   -> <<"Any", "T5Encoder", "T5Encoder">>
      [] l = "FluxCheckpointModel"        -> <<"Flux", "Main", "Checkpoint">>
      [] OTHER                            -> <<"Flux", "Main", "BnbQuantizednf4b">>

ConfigTypes ==
    {"CLIPEmbedDiffusersConfig", "MainBnbQuantized4bCheckpointConfig",
     "MainCheckpointConfig", "T5Encoder8bConfig", "T5EncoderConfig",
     "VAECheckpointConfig"}

\* The concrete config classes that derive from CheckpointConfigBase.
CheckpointConfigBaseSubclasses ==
    {"VAECheckpointConfig", "MainCheckpointConfig", "MainBnbQuantized4bCheckpointConfig"}

isinstance(c, cls) ==
    \/ c = cls
    \/ cls = "CheckpointConfigBase" /\ c \in CheckpointConfigBaseSubclasses

SubModelTypes ==
    {"None", "Tokenizer", "TextEncoder", "Tokenizer2", "TextEncoder2", "Transformer"}

(***************************************************************************)
(* The YAML document and the dataclasses it feeds.  A dict is the sequence *)
(* of its <<key, value>> items in insertion order, keys distinct.          *)
(***************************************************************************)
Keys == {"resolution", "in_channels", "depth", "extra_unused_field"}
Values == 1..NumValues

AutoEncoderParamsFields == {"resolution", "in_channels", "out_channels"}
AutoEncoderParamsDefaults == [k \in {"out_channels"} |-> 1]
FluxParamsFields == {"in_channels", "depth"}
FluxParamsDefaults == [k \in {} |-> 1]

DictKeys(items) == {items[i][1] : i \in DOMAIN items}
IsDict(items) == \A i, j \in DOMAIN items : items[i][1] = items[j][1] => i = j
\* d[k] for a key of d
DictGet(items, k) == items[CHOOSE i \in DOMAIN items : items[i][1] = k][2]
\* the mapping a dict denotes: what ** unpacking and == see
AsMap(items) == [k \in DictKeys(items) |-> DictGet(items, k)]

Dicts(n) ==
    {d \in UNION {[1..m -> Keys \X Values] : m \in 0..n} : IsDict(d)}

\* variant: the comprehension without its `if k in fields`
FilterData_unfiltered(items, fields) == items

\* {k: v for k, v in d.items() if k in fields}
FilterData(items, fields) == SelectSeq(items, LAMBDA kv : kv[1] \in fields)

\* Params(**filtered_data): TypeError when a field without default is missing
ParamsAccepts(items, fields, defaults) ==
    (fields \ DOMAIN defaults) \subseteq DictKeys(items)
MakeParams(items, fields, defaults) ==
    [k \in fields |-> IF k \in DictKeys(items) THEN DictGet(items, k) ELSE defaults[k]]

NoDict == <<>>
NoMap == [k \in {} |-> 1]

(***************************************************************************)
(* Tensors, skeletons, state dicts.                                        *)
(***************************************************************************)
Names == {"A", "B", "C", "D"}
SkeletonNames == {"A", "B", "C"}

SkeletonTensor(empty) ==
    [storage |-> IF empty THEN "meta" ELSE "full", data |-> "uninitialized"]
FileTensor == [storage |-> "file", data |-> "file"]

NoModel == [class |-> "None", tensors |-> [n \in {} |-> FileTensor], quantized |-> FALSE]
NoSd == [n \in {} |-> FileTensor]

\* load_class(params): under init_empty_weights no parameter gets backing storage
load_class(cls, names, empty) ==
    [class |-> cls, tensors |-> [n \in names |-> SkeletonTensor(empty)], quantized |-> FALSE]

\* quantize_model_nf4(model, modules_to_not_convert=set(), ...): layers are
\* replaced by their 4-bit form; nothing is materialised
quantize_model_nf4(m, modules_to_not_convert) ==
    [m EXCEPT !.quantized = (DOMAIN m.tensors \ modules_to_not_convert) # {}]

\* load_file(path): the flat name -> tensor mapping of the file
load_file(names) == [n \in names |-> FileTensor]

\* Module.load_state_dict(sd, strict, assign): names of the state dict that the
\* module has are loaded, by replacing the parameter (assign) or by copying
\* into its storage (a copy into a meta tensor stores nothing); missing and
\* unexpected names are an error only when strict.
load_state_dict(m, s, strict, assign) ==
    LET missing    == DOMAIN m.tensors \ DOMAIN s
        unexpected == DOMAIN s \ DOMAIN m.tensors
        loaded(n)  == IF assign THEN s[n]
                      ELSE IF m.tensors[n].storage = "meta" THEN m.tensors[n]
                      ELSE [m.tensors[n] EXCEPT !.data = s[n].data]
    IN  [ok    |-> ~strict \/ (missing = {} /\ unexpected = {}),
         model |-> [m EXCEPT !.tensors =
                       [n \in DOMAIN m.tensors |->
                           IF n \in DOMAIN s THEN loaded(n) ELSE m.tensors[n]]]]

(***************************************************************************)
(* The environment of one call: which external step (if any) raises, the   *)
(* YAML document at config.config_path, the tensor names in the weight     *)
(* file at config.path, and what kind of weights a pretrained directory    *)
(* holds.                                                                  *)
(***************************************************************************)
Faults ==
    {"none", "open", "safe_load", "load_class", "quantize", "load_file",
     "load_state_dict", "from_pretrained", "generic"}

Doc(has, items) == [has_params |-> has, params |-> items]
NoDoc == Doc(FALSE, NoDict)
Docs ==
    {NoDoc,
     Doc(TRUE, <<>>),
     Doc(TRUE, << <<"resolution", 1>>, <<"in_channels", 2>>, <<"extra_unused_field", 1>> >>),
     Doc(TRUE, << <<"extra_unused_field", 1>>, <<"in_channels", 2>>, <<"resolution", 1>> >>),
     Doc(TRUE, << <<"depth", 2>>, <<"in_channels", 1>>, <<"extra_unused_field", 2>> >>)}

WeightFiles == {{"A", "B", "C"}, {"B", "C", "D"}, {}}
Directories == {"plain", "quantized"}

Envs == [fault : Faults, doc : Docs, weights : WeightFiles, dir : Directories]
NoEnv == [fault |-> "none", doc |-> NoDoc, weights |-> {}, dir |-> "plain"]

(***************************************************************************)
(* Results.                                                                *)
(***************************************************************************)
NoResult == [ctor |-> "None", path |-> <<>>, max_length |-> 0, params |-> NoMap, model |-> NoModel]
ModelResult(m, p) ==
    [ctor |-> m.class, path |-> <<"path">>, max_length |-> 0, params |-> p, model |-> m]
PretrainedResult(ctor, path, max_length) ==
    [ctor |-> ctor, path |-> path, max_length |-> max_length, params |-> NoMap, model |-> NoModel]

NoPrev == [set |-> FALSE, submodel_type |-> "None", trace |-> <<>>, outcome |-> "pending",
           result |-> NoResult]

(***************************************************************************)
(* SilenceWarnings and the `with` statement.                               *)
(***************************************************************************)
SilenceWarnings_enter == TRUE
SilenceWarnings_exit == FALSE

(***************************************************************************)
(* How a statement ends: control moves on, an exception leaves the call,   *)
(* or the call returns.                                                    *)
(***************************************************************************)
Step(next, s) ==
    /\ pc' = next
    /\ trace' = Append(trace, s)
    /\ UNCHANGED <<inputs, outcome, result, prev>>

Raise(err, s) ==
    /\ pc' = "done"
    /\ trace' = Append(trace, s)
    /\ outcome' = err
    /\ result' = NoResult
    /\ UNCHANGED <<inputs, prev>>

Return(r, ss) ==
    /\ pc' = "done"
    /\ trace' = trace \o ss
    /\ outcome' = "ok"
    /\ result' = r
    /\ UNCHANGED <<inputs, prev>>

\* variant: suppression switched on and off by plain calls, no `with`: an
\* exception skips the switch-off
RaiseInWith_leak(err, s) ==
    /\ Raise(err, s)
    /\ UNCHANGED silenced
    /\ empty_weights' = FALSE

\* an exception raised inside `with SilenceWarnings():` leaves through __exit__,
\* and through the exit of an enclosed init_empty_weights()
RaiseInWith(err, s) ==
    /\ Raise(err, s)
    /\ silenced' = SilenceWarnings_exit
    /\ empty_weights' = FALSE

(***************************************************************************)
(* Statements the single-file loaders share word for word.                 *)
(***************************************************************************)
\* with open(config_path, "r") as stream:
OpenConfig(at, next) ==
    /\ pc = at
    /\ IF env.fault = "open" THEN Raise("FileNotFoundError", "open") ELSE Step(next, "open")
    /\ UNCHANGED <<locals, ctx>>

\* variant: `except:` substitutes an empty params section and carries on
SafeLoad_default(at, next) ==
    /\ pc = at
    /\ Step(next, "safe_load")
    /\ flux_conf' = (IF env.fault = "safe_load" THEN Doc(TRUE, <<>>) ELSE env.doc)
    /\ UNCHANGED <<dataclass_fields, filtered_data, params, model, sd, ctx>>

\* try: flux_conf = yaml.safe_load(stream) / except: raise
SafeLoad(at, next) ==
    /\ pc = at
    /\ IF env.fault = "safe_load"
       THEN Raise("YAMLError", "safe_load") /\ UNCHANGED flux_conf
       ELSE Step(next, "safe_load") /\ flux_conf' = env.doc
    /\ UNCHANGED <<dataclass_fields, filtered_data, params, model, sd, ctx>>

\* dataclass_fields = {f.name for f in fields(P)}
\* filtered_data = {k: v for k, v in flux_conf["params"].items() if k in dataclass_fields}
Filter(at, next, fields) ==
    /\ pc = at
    /\ dataclass_fields' = fields
    /\ IF ~flux_conf.has_params
       THEN Raise("KeyError", "filter") /\ UNCHANGED filtered_data
       ELSE Step(next, "filter") /\ filtered_data' = FilterData(flux_conf.params, fields)
    /\ UNCHANGED <<flux_conf, params, model, sd, ctx>>

\* params = P(**filtered_data)
Params(at, next, fields, defaults) ==
    /\ pc = at
    /\ IF ~ParamsAccepts(filtered_data, fields, defaults)
       THEN Raise("TypeError", "params") /\ UNCHANGED params
       ELSE Step(next, "params") /\ params' = MakeParams(filtered_data, fields, defaults)
    /\ UNCHANGED <<flux_conf, dataclass_fields, filtered_data, model, sd, ctx>>

\* with SilenceWarnings():
EnterSilence(at, next) ==
    /\ pc = at
    /\ Step(next, "enter_silence")
    /\ silenced' = SilenceWarnings_enter
    /\ UNCHANGED <<locals, empty_weights>>

\* model = load_class(params)
LoadClass(at, next, cls) ==
    /\ pc = at
    /\ IF env.fault = "load_class"
       THEN RaiseInWith("ConstructError", "load_class") /\ UNCHANGED model
       ELSE /\ Step(next, "load_class")
            /\ model' = load_class(cls, SkeletonNames, empty_weights)
            /\ UNCHANGED ctx
    /\ UNCHANGED <<flux_conf, dataclass_fields, filtered_data, params, sd>>

\* sd = load_file(model_path)
LoadFile(at, next) ==
    /\ pc = at
    /\ IF env.fault = "load_file"
       THEN RaiseInWith("DeserializeError", "load_file") /\ UNCHANGED sd
       ELSE Step(next, "load_file") /\ sd' = load_file(env.weights) /\ UNCHANGED ctx
    /\ UNCHANGED <<flux_conf, dataclass_fields, filtered_data, params, model>>

\* model.load_state_dict(sd, strict=False, assign=True), the last statement
\* of the with block: leaving it normally runs __exit__ too
LoadStateDict(at, next, loaded) ==
    /\ pc = at
    /\ IF env.fault = "load_state_dict" \/ ~loaded.ok
       THEN RaiseInWith("OverlayError", "load_state_dict") /\ UNCHANGED model
       ELSE /\ Step(next, "load_state_dict")
            /\ model' = loaded.model
            /\ silenced' = SilenceWarnings_exit
            /\ UNCHANGED empty_weights
    /\ UNCHANGED <<flux_conf, dataclass_fields, filtered_data, params, sd>>

\* return model
ReturnModel(at) ==
    /\ pc = at
    /\ Return(ModelResult(model, params), <<"return">>)
    /\ UNCHANGED <<locals, ctx>>

\* return C.from_pretrained(path, ...)
FromPretrained(at, ctor, path, max_length) ==
    /\ pc = at
    /\ IF env.fault = "from_pretrained"
       THEN Raise("PretrainedError", "from_pretrained")
       ELSE Return(PretrainedResult(ctor, path, max_length), <<"from_pretrained", "return">>)
    /\ UNCHANGED <<locals, ctx>>

(***************************************************************************)
(* A load request: the registry hands `config` and `submodel_type` to the  *)
(* _load_model of a registered class.                                      *)
(***************************************************************************)
Entry(l) ==
    CASE l = "FluxVAELoader"              -> "vae_52"
      [] l = "ClipCheckpointModel"        -> "clip_86"
      [] l = "T5Encoder8bCheckpointModel" -> "t5q_107"
      [] l = "T5EncoderCheckpointModel"   -> "t5_128"
      [] l = "FluxCheckpointModel"        -> "flux_151"
      [] OTHER                            -> "quant_196"

Begin(l, c, s, e) ==
    /\ pc' = Entry(l)
    /\ loader' = l /\ config' = c /\ submodel_type' = s /\ env' = e
    /\ flux_conf' = NoDoc /\ dataclass_fields' = {} /\ filtered_data' = NoDict
    /\ params' = NoMap /\ model' = NoModel /\ sd' = NoSd
    /\ trace' = <<>> /\ outcome' = "pending" /\ result' = NoResult
    /\ UNCHANGED ctx

load_model ==
    /\ pc = "idle"
    /\ \E l \in Loaders, c \in ConfigTypes, s \in SubModelTypes, e \in Envs :
           Begin(l, c, s, e)
    /\ prev' = NoPrev

\* The call is over: its frame (arguments, locals) is gone, the caller has
\* the object or the exception.  Contexts are left as the call left them.
load_model_ends ==
    /\ pc = "done"
    /\ pc' = "idle"
    /\ loader' = "FluxVAELoader" /\ config' = "VAECheckpointConfig"
    /\ submodel_type' = "None" /\ env' = NoEnv
    /\ flux_conf' = NoDoc /\ dataclass_fields' = {} /\ filtered_data' = NoDict
    /\ params' = NoMap /\ model' = NoModel /\ sd' = NoSd
    /\ trace' = <<>> /\ outcome' = "pending" /\ result' = NoResult
    /\ prev' = NoPrev
    /\ UNCHANGED ctx

\* The same request to FluxVAELoader again (same config, same files), for
\* another sub-part; what the finished call did is kept for comparison.
FluxVAELoader_load_model_again ==
    /\ pc = "done"
    /\ loader = "FluxVAELoader"
    /\ isinstance(config, "VAECheckpointConfig")
    /\ \E s \in SubModelTypes \ {submodel_type} : Begin(loader, config, s, env)
    /\ prev' = [set |-> TRUE, submodel_type |-> submodel_type, trace |-> trace,
                outcome |-> outcome, result |-> result]

(***************************************************************************)
(* FluxVAELoader._load_model                                               *)
(***************************************************************************)
\* variant: the VAE branch turns away requests that name a sub-part
FluxVAELoader_isinstance_submodel ==
    /\ pc = "vae_52"
    /\ IF isinstance(config, "VAECheckpointConfig")
       THEN IF submodel_type = "None"
            THEN Step("vae_57", "isinstance")
            ELSE Raise("UnsupportedSubPart", "isinstance")
       ELSE Step("vae_74", "isinstance")
    /\ UNCHANGED <<locals, ctx>>

FluxVAELoader_isinstance ==
    /\ pc = "vae_52"
    /\ IF isinstance(config, "VAECheckpointConfig")
       THEN Step("vae_57", "isinstance")
       ELSE Step("vae_74", "isinstance")
    /\ UNCHANGED <<locals, ctx>>

FluxVAELoader_open == OpenConfig("vae_57", "vae_59")

FluxVAELoader_safe_load == SafeLoad("vae_59", "vae_63")

FluxVAELoader_filter == Filter("vae_63", "vae_65", AutoEncoderParamsFields)

FluxVAELoader_params ==
    Params("vae_65", "vae_67", AutoEncoderParamsFields, AutoEncoderParamsDefaults)

FluxVAELoader_with == EnterSilence("vae_67", "vae_68")

FluxVAELoader_load_class == LoadClass("vae_68", "vae_69", "AutoEncoder")

FluxVAELoader_load_file == LoadFile("vae_69", "vae_70")

FluxVAELoader_overlay(m, s) == load_state_dict(m, s, FALSE, TRUE)

FluxVAELoader_load_state_dict ==
    LoadStateDict("vae_70", "vae_72", FluxVAELoader_overlay(model, sd))

FluxVAELoader_return == ReturnModel("vae_72")

\* return super()._load_model(config, submodel_type)
FluxVAELoader_super ==
    /\ pc = "vae_74"
    /\ Step("generic_load_model", "super")
    /\ UNCHANGED <<locals, ctx>>

\* GenericDiffusersLoader._load_model, reached through super(): it returns
\* what it loaded or it raises, and the VAE loader passes either on
GenericDiffusersLoader_load_model ==
    /\ pc = "generic_load_model"
    /\ IF env.fault = "generic"
       THEN Raise("SuperError", "generic")
       ELSE Return(PretrainedResult("GenericDiffusersLoader", <<"path">>, 0),
                   <<"generic", "return">>)
    /\ UNCHANGED <<locals, ctx>>

(***************************************************************************)
(* ClipCheckpointModel._load_model                                         *)
(***************************************************************************)
ClipCheckpointModel_isinstance ==
    /\ pc = "clip_86"
    /\ IF ~isinstance(config, "CLIPEmbedDiffusersConfig")
       THEN Raise("ConfigTypeMismatch", "isinstance")
       ELSE Step("clip_89", "isinstance")
    /\ UNCHANGED <<locals, ctx>>

\* variant: the match ends in a catch-all arm that loads the text encoder
ClipCheckpointModel_match_default ==
    /\ pc = "clip_89"
    /\ CASE submodel_type = "Tokenizer" -> Step("clip_91", "match")
         [] OTHER                       -> Step("clip_93", "match")
    /\ UNCHANGED <<locals, ctx>>

ClipCheckpointModel_match ==
    /\ pc = "clip_89"
    /\ CASE submodel_type = "Tokenizer"   -> Step("clip_91", "match")
         [] submodel_type = "TextEncoder" -> Step("clip_93", "match")
         [] OTHER                         -> Raise("UnsupportedSubPart", "match")
    /\ UNCHANGED <<locals, ctx>>

ClipCheckpointModel_Tokenizer ==
    FromPretrained("clip_91", "CLIPTokenizer", <<"path">>, 77)

ClipCheckpointModel_TextEncoder ==
    FromPretrained("clip_93", "CLIPTextModel", <<"path">>, 0)

(***************************************************************************)
(* T5Encoder8bCheckpointModel._load_model                                  *)
(***************************************************************************)
T5Encoder8bCheckpointModel_isinstance ==
    /\ pc = "t5q_107"
    /\ IF ~isinstance(config, "T5Encoder8bConfig")
       THEN Raise("ConfigTypeMismatch", "isinstance")
       ELSE Step("t5q_110", "isinstance")
    /\ UNCHANGED <<locals, ctx>>

T5Encoder8bCheckpointModel_match ==
    /\ pc = "t5q_110"
    /\ CASE submodel_type = "Tokenizer2"   -> Step("t5q_112", "match")
         [] submodel_type = "TextEncoder2" -> Step("t5q_114", "match")
         [] OTHER                          -> Raise("UnsupportedSubPart", "match")
    /\ UNCHANGED <<locals, ctx>>

T5Encoder8bCheckpointModel_Tokenizer2 ==
    FromPretrained("t5q_112", "T5Tokenizer", <<"path", "tokenizer_2">>, 512)

\* variant: the wrapper is chosen by what the directory holds
T5Encoder8bCheckpointModel_TextEncoder2_by_dir ==
    FromPretrained("t5q_114",
                   IF env.dir = "quantized" THEN "FastQuantizedTransformersModel"
                                            ELSE "T5EncoderModel",
                   <<"path", "text_encoder_2">>, 0)

T5Encoder8bCheckpointModel_TextEncoder2 ==
    FromPretrained("t5q_114", "FastQuantizedTransformersModel",
                   <<"path", "text_encoder_2">>, 0)

(***************************************************************************)
(* T5EncoderCheckpointModel._load_model                                    *)
(***************************************************************************)
T5EncoderCheckpointModel_isinstance ==
    /\ pc = "t5_128"
    /\ IF ~isinstance(config, "T5EncoderConfig")
       THEN Raise("ConfigTypeMismatch", "isinstance")
       ELSE Step("t5_131", "isinstance")
    /\ UNCHANGED <<locals, ctx>>

T5EncoderCheckpointModel_match ==
    /\ pc = "t5_131"
    /\ CASE submodel_type = "Tokenizer2"   -> Step("t5_133", "match")
         [] submodel_type = "TextEncoder2" -> Step("t5_135", "match")
         [] OTHER                          -> Raise("UnsupportedSubPart", "match")
    /\ UNCHANGED <<locals, ctx>>

T5EncoderCheckpointModel_Tokenizer2 ==
    FromPretrained("t5_133", "T5Tokenizer", <<"path", "tokenizer_2">>, 512)

T5EncoderCheckpointModel_TextEncoder2 ==
    FromPretrained("t5_135", "T5EncoderModel", <<"path", "text_encoder_2">>, 0)

(***************************************************************************)
(* FluxCheckpointModel._load_model and ._load_from_singlefile              *)
(***************************************************************************)
FluxCheckpointModel_isinstance ==
    /\ pc = "flux_151"
    /\ IF ~isinstance(config, "CheckpointConfigBase")
       THEN Raise("ConfigTypeMismatch", "isinstance")
       ELSE Step("flux_155", "isinstance")
    /\ UNCHANGED <<locals, ctx>>

FluxCheckpointModel_open == OpenConfig("flux_155", "flux_157")

FluxCheckpointModel_safe_load == SafeLoad("flux_157", "flux_161")

FluxCheckpointModel_match ==
    /\ pc = "flux_161"
    /\ CASE submodel_type = "Transformer" -> Step("flux_172", "match")
         [] OTHER                         -> Raise("UnsupportedSubPart", "match")
    /\ UNCHANGED <<locals, ctx>>

FluxCheckpointModel_assert ==
    /\ pc = "flux_172"
    /\ IF isinstance(config, "MainCheckpointConfig")
       THEN Step("flux_176", "assert")
       ELSE Raise("AssertionError", "assert")
    /\ UNCHANGED <<locals, ctx>>

FluxCheckpointModel_filter == Filter("flux_176", "flux_178", FluxParamsFields)

FluxCheckpointModel_params ==
    Params("flux_178", "flux_180", FluxParamsFields, FluxParamsDefaults)

FluxCheckpointModel_with == EnterSilence("flux_180", "flux_181")

FluxCheckpointModel_load_class == LoadClass("flux_181", "flux_182", "Flux")

FluxCheckpointModel_load_file == LoadFile("flux_182", "flux_183")

\* variant: strict=True
FluxCheckpointModel_overlay_strict(m, s) == load_state_dict(m, s, TRUE, TRUE)

FluxCheckpointModel_overlay(m, s) == load_state_dict(m, s, FALSE, TRUE)

FluxCheckpointModel_load_state_dict ==
    LoadStateDict("flux_183", "flux_184", FluxCheckpointModel_overlay(model, sd))

FluxCheckpointModel_return == ReturnModel("flux_184")

(***************************************************************************)
(* FluxBnbQuantizednf4bCheckpointModel._load_model, ._load_from_singlefile *)
(***************************************************************************)
FluxBnbQuantizednf4bCheckpointModel_isinstance ==
    /\ pc = "quant_196"
    /\ IF ~isinstance(config, "CheckpointConfigBase")
       THEN Raise("ConfigTypeMismatch", "isinstance")
       ELSE Step("quant_200", "isinstance")
    /\ UNCHANGED <<locals, ctx>>

FluxBnbQuantizednf4bCheckpointModel_open == OpenConfig("quant_200", "quant_202")

FluxBnbQuantizednf4bCheckpointModel_safe_load == SafeLoad("quant_202", "quant_206")

FluxBnbQuantizednf4bCheckpointModel_match ==
    /\ pc = "quant_206"
    /\ CASE submodel_type = "Transformer" -> Step("quant_217", "match")
         [] OTHER                         -> Raise("UnsupportedSubPart", "match")
    /\ UNCHANGED <<locals, ctx>>

FluxBnbQuantizednf4bCheckpointModel_assert ==
    /\ pc = "quant_217"
    /\ IF isinstance(config, "MainBnbQuantized4bCheckpointConfig")
       THEN Step("quant_221", "assert")
       ELSE Raise("AssertionError", "assert")
    /\ UNCHANGED <<locals, ctx>>

FluxBnbQuantizednf4bCheckpointModel_filter ==
    Filter("quant_221", "quant_223", FluxParamsFields)

FluxBnbQuantizednf4bCheckpointModel_params ==
    Params("quant_223", "quant_225", FluxParamsFields, FluxParamsDefaults)

FluxBnbQuantizednf4bCheckpointModel_with == EnterSilence("quant_225", "quant_226")

\* variant: the skeleton is built outside init_empty_weights()
FluxBnbQuantizednf4bCheckpointModel_init_empty_weights_missing ==
    /\ pc = "quant_226"
    /\ Step("quant_227", "init_empty_weights")
    /\ UNCHANGED <<locals, ctx>>

\* with accelerate.init_empty_weights():
FluxBnbQuantizednf4bCheckpointModel_init_empty_weights ==
    /\ pc = "quant_226"
    /\ Step("quant_227", "init_empty_weights")
    /\ empty_weights' = TRUE
    /\ UNCHANGED <<locals, silenced>>

FluxBnbQuantizednf4bCheckpointModel_load_class ==
    LoadClass("quant_227", "quant_228", "Flux")

\* model = quantize_model_nf4(model, modules_to_not_convert=set(), ...), the
\* last statement under init_empty_weights()
FluxBnbQuantizednf4bCheckpointModel_quantize ==
    /\ pc = "quant_228"
    /\ IF env.fault = "quantize"
       THEN RaiseInWith("QuantizeError", "quantize") /\ UNCHANGED model
       ELSE /\ Step("quant_229", "quantize")
            /\ model' = quantize_model_nf4(model, {})
            /\ empty_weights' = FALSE
            /\ UNCHANGED silenced
    /\ UNCHANGED <<flux_conf, dataclass_fields, filtered_data, params, sd>>

FluxBnbQuantizednf4bCheckpointModel_load_file == LoadFile("quant_229", "quant_230")

FluxBnbQuantizednf4bCheckpointModel_overlay(m, s) == load_state_dict(m, s, FALSE, TRUE)

FluxBnbQuantizednf4bCheckpointModel_load_state_dict ==
    LoadStateDict("quant_230", "quant_231",
                  FluxBnbQuantizednf4bCheckpointModel_overlay(model, sd))

FluxBnbQuantizednf4bCheckpointModel_return == ReturnModel("quant_231")

(***************************************************************************)
(* The loaders serving requests.                                           *)
(***************************************************************************)
Init ==
    /\ pc = "idle"
    /\ loader = "FluxVAELoader" /\ config = "VAECheckpointConfig"
    /\ submodel_type = "None" /\ env = NoEnv
    /\ flux_conf = NoDoc /\ dataclass_fields = {} /\ filtered_data = NoDict
    /\ params = NoMap /\ model = NoModel /\ sd = NoSd
    /\ silenced = FALSE /\ empty_weights = FALSE
    /\ trace = <<>> /\ outcome = "pending" /\ result = NoResult
    /\ prev = NoPrev

Next ==
    \/ load_model
    \/ load_model_ends
    \/ FluxVAELoader_load_model_again
    \/ FluxVAELoader_isinstance
    \/ FluxVAELoader_open
    \/ FluxVAELoader_safe_load
    \/ FluxVAELoader_filter
    \/ FluxVAELoader_params
    \/ FluxVAELoader_with
    \/ FluxVAELoader_load_class
    \/ FluxVAELoader_load_file
    \/ FluxVAELoader_load_state_dict
    \/ FluxVAELoader_return
    \/ FluxVAELoader_super
    \/ GenericDiffusersLoader_load_model
    \/ ClipCheckpointModel_isinstance
    \/ ClipCheckpointModel_match
    \/ ClipCheckpointModel_Tokenizer
    \/ ClipCheckpointModel_TextEncoder
    \/ T5Encoder8bCheckpointModel_isinstance
    \/ T5Encoder8bCheckpointModel_match
    \/ T5Encoder8bCheckpointModel_Tokenizer2
    \/ T5Encoder8bCheckpointModel_TextEncoder2
    \/ T5EncoderCheckpointModel_isinstance
    \/ T5EncoderCheckpointModel_match
    \/ T5EncoderCheckpointModel_Tokenizer2
    \/ T5EncoderCheckpointModel_TextEncoder2
    \/ FluxCheckpointModel_isinstance
    \/ FluxCheckpointModel_open
    \/ FluxCheckpointModel_safe_load
    \/ FluxCheckpointModel_match
    \/ FluxCheckpointModel_assert
    \/ FluxCheckpointModel_filter
    \/ FluxCheckpointModel_params
    \/ FluxCheckpointModel_with
    \/ FluxCheckpointModel_load_class
    \/ FluxCheckpointModel_load_file
    \/ FluxCheckpointModel_load_state_dict
    \/ FluxCheckpointModel_return
    \/ FluxBnbQuantizednf4bCheckpointModel_isinstance
    \/ FluxBnbQuantizednf4bCheckpointModel_open
    \/ FluxBnbQuantizednf4bCheckpointModel_safe_load
    \/ FluxBnbQuantizednf4bCheckpointModel_match
    \/ FluxBnbQuantizednf4bCheckpointModel_assert
    \/ FluxBnbQuantizednf4bCheckpointModel_filter
    \/ FluxBnbQuantizednf4bCheckpointModel_params
    \/ FluxBnbQuantizednf4bCheckpointModel_with
    \/ FluxBnbQuantizednf4bCheckpointModel_init_empty_weights
    \/ FluxBnbQuantizednf4bCheckpointModel_load_class
    \/ FluxBnbQuantizednf4bCheckpointModel_quantize
    \/ FluxBnbQuantizednf4bCheckpointModel_load_file
    \/ FluxBnbQuantizednf4bCheckpointModel_load_state_dict
    \/ FluxBnbQuantizednf4bCheckpointModel_return

Spec == Init /\ [][Next]_vars

(***************************************************************************)
(* The comprehension of lines 64/177/222 on its own: every `params`        *)
(* mapping of up to MaxDocLen keys against every set of field names, and   *)
(* the result fed through the same statement once more.                    *)
(***************************************************************************)
AllFields == AutoEncoderParamsFields \cup FluxParamsFields

Filter_apply == Filter("filter_in", "filter_out", dataclass_fields)

Filter_again ==
    /\ pc = "filter_out"
    /\ Len(trace) < 2
    /\ pc' = "filter_in"
    /\ flux_conf' = Doc(TRUE, filtered_data)
    /\ UNCHANGED <<inputs, dataclass_fields, filtered_data, params, model, sd, ctx,
                   trace, outcome, result, prev>>

InitFilter ==
    /\ pc = "filter_in"
    /\ loader = "FluxVAELoader" /\ config = "VAECheckpointConfig"
    /\ submodel_type = "None" /\ env = NoEnv
    /\ flux_conf \in {Doc(TRUE, d) : d \in Dicts(MaxDocLen)}
    /\ dataclass_fields \in SUBSET AllFields
    /\ filtered_data = NoDict
    /\ params = NoMap /\ model = NoModel /\ sd = NoSd
    /\ silenced = FALSE /\ empty_weights = FALSE
    /\ trace = <<>> /\ outcome = "pending" /\ result = NoResult
    /\ prev = NoPrev

NextFilter == Filter_apply \/ Filter_again

SpecFilter == InitFilter /\ [][NextFilter]_vars

(***************************************************************************)
(* The overlay statement of lines 70/183/230 on its own: each single-file  *)
(* loader stands at its load_state_dict call with a skeleton of any name   *)
(* set and a state dict of any name set.                                   *)
(***************************************************************************)
OverlayAt(l) ==
    CASE l = "FluxVAELoader"       -> "vae_70"
      [] l = "FluxCheckpointModel" -> "flux_183"
      [] OTHER                     -> "quant_230"

SkeletonAt(l, names) ==
    CASE l = "FluxVAELoader"       -> load_class("AutoEncoder", names, FALSE)
      [] l = "FluxCheckpointModel" -> load_class("Flux", names, FALSE)
      [] OTHER                     -> quantize_model_nf4(load_class("Flux", names, TRUE), {})

InitOverlay ==
    /\ loader \in SingleFileLoaders
    /\ pc = OverlayAt(loader)
    /\ config = (CASE loader = "FluxVAELoader"       -> "VAECheckpointConfig"
                   [] loader = "FluxCheckpointModel" -> "MainCheckpointConfig"
                   [] OTHER -> "MainBnbQuantized4bCheckpointConfig")
    /\ submodel_type = (IF loader = "FluxVAELoader" THEN "None" ELSE "Transformer")
    /\ \E W \in SUBSET Names :
           /\ env = [NoEnv EXCEPT !.weights = W]
           /\ sd = load_file(W)
    /\ \E S \in SUBSET Names : model = SkeletonAt(loader, S)
    /\ flux_conf = NoDoc /\ dataclass_fields = {} /\ filtered_data = NoDict
    /\ params = NoMap
    /\ silenced = TRUE /\ empty_weights = FALSE
    /\ trace = <<>> /\ outcome = "pending" /\ result = NoResult
    /\ prev = NoPrev

NextOverlay ==
    \/ FluxVAELoader_load_state_dict
    \/ FluxVAELoader_return
    \/ FluxCheckpointModel_load_state_dict
    \/ FluxCheckpointModel_return
    \/ FluxBnbQuantizednf4bCheckpointModel_load_state_dict
    \/ FluxBnbQuantizednf4bCheckpointModel_return

SpecOverlay == InitOverlay /\ [][NextOverlay]_vars

(***************************************************************************)
(* What the branches of the loaders select, read off the isinstance tests, *)
(* the asserts, the match arms and the constructor calls.                  *)
(***************************************************************************)
FluxMainLoaders == {"FluxCheckpointModel", "FluxBnbQuantizednf4bCheckpointModel"}
T5Loaders == {"T5Encoder8bCheckpointModel", "T5EncoderCheckpointModel"}
ClosedLoaders == Loaders \ {"FluxVAELoader"}

\* the class tested when _load_model is entered
EntryCheck(l) ==
    CASE l = "FluxVAELoader"              -> "VAECheckpointConfig"
      [] l = "ClipCheckpointModel"        -> "CLIPEmbedDiffusersConfig"
      [] l = "T5Encoder8bCheckpointModel" -> "T5Encoder8bConfig"
      [] l = "T5EncoderCheckpointModel"   -> "T5EncoderConfig"
      [] OTHER                            -> "CheckpointConfigBase"

\* the concrete class the loader goes on to work with
ExpectedConfig(l) ==
    CASE l = "FluxCheckpointModel"                 -> "MainCheckpointConfig"
      [] l = "FluxBnbQuantizednf4bCheckpointModel" -> "MainBnbQuantized4bCheckpointConfig"
      [] OTHER                                     -> EntryCheck(l)

SupportedSubParts(l) ==
    CASE l = "ClipCheckpointModel" -> {"Tokenizer", "TextEncoder"}
      [] l \in T5Loaders           -> {"Tokenizer2", "TextEncoder2"}
      [] l \in FluxMainLoaders     -> {"Transformer"}
      [] OTHER                     -> SubModelTypes

Designated(l, s) ==
    CASE l = "FluxVAELoader"       -> "AutoEncoder"
      [] l \in FluxMainLoaders     -> "Flux"
      [] l = "ClipCheckpointModel" ->
            (IF s = "Tokenizer" THEN "CLIPTokenizer" ELSE "CLIPTextModel")
      [] l = "T5Encoder8bCheckpointModel" ->
            (IF s = "Tokenizer2" THEN "T5Tokenizer" ELSE "FastQuantizedTransformersModel")
      [] OTHER ->
            (IF s = "Tokenizer2" THEN "T5Tokenizer" ELSE "T5EncoderModel")

DefaultsOf(l) ==
    IF l = "FluxVAELoader" THEN AutoEncoderParamsDefaults ELSE FluxParamsDefaults

(***************************************************************************)
(* Reading the trace of a call.                                            *)
(***************************************************************************)
Has(s) == \E i \in DOMAIN trace : trace[i] = s
Before(a, b) == \A i, j \in DOMAIN trace : (trace[i] = a /\ trace[j] = b) => i < j
Last == trace[Len(trace)]
IsPrefix(a, b) == Len(a) <= Len(b) /\ \A i \in DOMAIN a : a[i] = b[i]

IOSteps == {"open", "load_file", "from_pretrained"}
ConstructionSteps ==
    {"load_class", "quantize", "load_file", "load_state_dict", "from_pretrained", "generic"}
NothingConstructed == \A i \in DOMAIN trace : trace[i] \notin ConstructionSteps
ConfigParseError == {"FileNotFoundError", "YAMLError"}

\* the step fails because of what it finds outside the program
EnvFails(s) ==
    \/ s \in Faults /\ env.fault = s
    \/ s = "filter" /\ ~env.doc.has_params
    \/ s = "params" /\ ~ParamsAccepts(filtered_data, dataclass_fields, DefaultsOf(loader))

\* the step fails
StepFails(s) ==
    \/ EnvFails(s)
    \/ s = "isinstance" /\ loader # "FluxVAELoader" /\ ~isinstance(config, EntryCheck(loader))
    \/ s = "assert" /\ config # ExpectedConfig(loader)
    \/ s = "match" /\ submodel_type \notin SupportedSubParts(loader)

ErrorOf(s) ==
    CASE s = "open"            -> "FileNotFoundError"
      [] s = "safe_load"       -> "YAMLError"
      [] s = "filter"          -> "KeyError"
      [] s = "params"          -> "TypeError"
      [] s = "load_class"      -> "ConstructError"
      [] s = "quantize"        -> "QuantizeError"
      [] s = "load_file"       -> "DeserializeError"
      [] s = "load_state_dict" -> "OverlayError"
      [] s = "from_pretrained" -> "PretrainedError"
      [] s = "generic"         -> "SuperError"
      [] s = "isinstance"      -> "ConfigTypeMismatch"
      [] s = "assert"          -> "AssertionError"
      [] s = "match"           -> "UnsupportedSubPart"
      [] OTHER                 -> "ok"

(***************************************************************************)
(* C1.  In FluxBnbQuantizednf4bCheckpointModel the skeleton is built       *)
(* before it is quantized, it is quantized before the weight file is       *)
(* deserialized, and the file is deserialized before it is overlaid; when  *)
(* quantization is about to start no parameter of the skeleton has backing *)
(* storage; a call that returns has done all of these and returns the      *)
(* quantized model.                                                        *)
(***************************************************************************)
C1_QuantizedOrder ==
    loader = "FluxBnbQuantizednf4bCheckpointModel" =>
        /\ Has("quantize") => Has("load_class") /\ Before("load_class", "quantize")
        /\ Has("load_file") => Has("quantize") /\ Before("quantize", "load_file")
        /\ Has("load_state_dict") =>
               Has("load_file") /\ Before("load_file", "load_state_dict")
        /\ pc = "quant_228" =>
               /\ DOMAIN model.tensors # {}
               /\ \A n \in DOMAIN model.tensors : model.tensors[n].storage = "meta"
               /\ ~model.quantized
        /\ outcome = "ok" =>
               /\ Has("load_class") /\ Has("quantize") /\ Has("load_state_dict")
               /\ result.model.quantized

C1_Witness ==
    /\ loader = "FluxBnbQuantizednf4bCheckpointModel"
    /\ pc = "done" /\ outcome = "ok"
    /\ result.model.quantized
    /\ env.weights = {"B", "C", "D"}
    /\ result.model.tensors["B"] = FileTensor
    /\ result.model.tensors["A"].storage = "meta"

(***************************************************************************)
(* C2.  A call whose config is not of the class the loader works with ends *)
(* in the type-mismatch error and has opened no YAML file and read no      *)
(* weight file or pretrained directory.  Read in the claim's favour: the   *)
(* AssertionError of `assert isinstance` counts as the type-mismatch       *)
(* error, and what the parent class does with a mismatch that              *)
(* FluxVAELoader hands to it is not judged.                                *)
(***************************************************************************)
C2_MismatchFailsBeforeIO ==
    (pc # "idle" /\ config # ExpectedConfig(loader)) =>
        /\ \A i \in DOMAIN trace : trace[i] \notin IOSteps
        /\ (pc = "done" /\ loader # "FluxVAELoader") =>
               outcome \in {"ConfigTypeMismatch", "AssertionError"}

(***************************************************************************)
(* C3, as claimed, and read in its favour for calls whose config is of the *)
(* class the loader works with.  A call to the CLIP, T5 or Flux main       *)
(* loader for a sub-part outside the loader's set constructs nothing and   *)
(* ends in UnsupportedSubPart.                                             *)
(***************************************************************************)
C3_UnsupportedSubPart ==
    (pc # "idle" /\ loader \in ClosedLoaders
                 /\ config = ExpectedConfig(loader)
                 /\ submodel_type \notin SupportedSubParts(loader)) =>
        /\ NothingConstructed
        /\ pc = "done" => outcome = "UnsupportedSubPart"

(***************************************************************************)
(* C3, amended.  Such a call constructs nothing and ends in an error with  *)
(* no object returned.  The error is UnsupportedSubPart exactly when the   *)
(* isinstance test at the loader's entry passes and, in the two Flux main  *)
(* loaders, the metadata file was opened and parsed; a config that fails   *)
(* the entry test gives the type-mismatch error, and a metadata file that  *)
(* cannot be opened or parsed gives that error, because both are reached   *)
(* before the match on the sub-part.                                       *)
(***************************************************************************)
C3_UnsupportedSubPartAfterEntryChecks ==
    (pc # "idle" /\ loader \in ClosedLoaders
                 /\ submodel_type \notin SupportedSubParts(loader)) =>
        /\ NothingConstructed
        /\ pc = "done" =>
            LET entry == isinstance(config, EntryCheck(loader))
                metadata == loader \in FluxMainLoaders => env.fault \notin {"open", "safe_load"}
            IN  /\ outcome # "ok" /\ result = NoResult
                /\ (entry /\ metadata) => outcome = "UnsupportedSubPart"
                /\ ~entry => outcome = "ConfigTypeMismatch"
                /\ (entry /\ ~metadata) => outcome \in ConfigParseError

C3_Witness ==
    /\ pc = "done"
    /\ loader = "FluxCheckpointModel" /\ config = "MainCheckpointConfig"
    /\ submodel_type = "Tokenizer"
    /\ Has("open") /\ Last = "match"
    /\ outcome = "UnsupportedSubPart"

(***************************************************************************)
(* C4.  A step that fails is the last thing its call does: the call is     *)
(* over, its outcome is that step's error, and it returns no object.  No   *)
(* statement runs twice in a call.  A call that ends in an error returns   *)
(* no object and ended at a failing step.  A metadata file that cannot be  *)
(* opened or parsed ends the call in a ConfigParseError, and a             *)
(* ConfigParseError comes from nothing else.                               *)
(***************************************************************************)
C4_ErrorsAreFatal ==
    /\ \A i \in DOMAIN trace :
           StepFails(trace[i]) =>
               /\ i = Len(trace)
               /\ pc = "done"
               /\ outcome = ErrorOf(trace[i])
               /\ result = NoResult
    /\ \A i, j \in DOMAIN trace : trace[i] = trace[j] => i = j
    /\ (pc = "done" /\ outcome # "ok") => (result = NoResult /\ StepFails(Last))
    /\ outcome \in ConfigParseError <=>
           (pc = "done" /\ Last \in {"open", "safe_load"} /\ env.fault = Last)

C4_Witness ==
    /\ pc = "done"
    /\ loader = "FluxVAELoader"
    /\ env.fault = "safe_load"
    /\ trace = <<"isinstance", "open", "safe_load">>
    /\ outcome = "YAMLError"
    /\ result = NoResult

(***************************************************************************)
(* C7.  A finished call with the config class the loader works with and a  *)
(* sub-part the loader supports has failed only if a step failed on what   *)
(* it found outside the program; otherwise it returned an object, made by  *)
(* the constructor of that loader and sub-part.  The T5 loaders read       *)
(* tokenizer_2 and text_encoder_2 under config.path, give the same         *)
(* tokenizer, and take FastQuantizedTransformersModel (T5Encoder8b) or     *)
(* T5EncoderModel (T5Encoder) for the encoder whatever the directory       *)
(* holds.                                                                  *)
(***************************************************************************)
C7_DesignatedConstructor ==
    (pc = "done" /\ config = ExpectedConfig(loader)
                 /\ submodel_type \in SupportedSubParts(loader)) =>
        /\ outcome # "ok" => EnvFails(Last)
        /\ outcome = "ok" =>
            /\ result # NoResult
            /\ result.ctor = Designated(loader, submodel_type)
            /\ loader \in SingleFileLoaders =>
                   result.model.quantized = (loader = "FluxBnbQuantizednf4bCheckpointModel")
            /\ (loader \in T5Loaders /\ submodel_type = "Tokenizer2") =>
                   result = PretrainedResult("T5Tokenizer", <<"path", "tokenizer_2">>, 512)
            /\ (loader \in T5Loaders /\ submodel_type = "TextEncoder2") =>
                   result.path = <<"path", "text_encoder_2">>

C7_Witness ==
    /\ pc = "done" /\ outcome = "ok"
    /\ loader = "T5Encoder8bCheckpointModel" /\ config = "T5Encoder8bConfig"
    /\ submodel_type = "TextEncoder2"
    /\ env.dir = "plain"
    /\ result.ctor = "FastQuantizedTransformersModel"

(***************************************************************************)
(* C8.  Warnings are suppressed exactly while a call is inside its         *)
(* `with SilenceWarnings():` block: not before the block, not after the    *)
(* block ends or is left by an exception, not between calls.               *)
(***************************************************************************)
InsideWith ==
    {"vae_68", "vae_69", "vae_70", "flux_181", "flux_182", "flux_183",
     "quant_226", "quant_227", "quant_228", "quant_229", "quant_230"}

C8_ScopedSuppression == silenced <=> pc \in InsideWith

C8_Witness ==
    /\ pc = "done"
    /\ loader = "FluxBnbQuantizednf4bCheckpointModel"
    /\ Has("enter_silence")
    /\ outcome = "DeserializeError"
    /\ ~silenced

(***************************************************************************)
(* C9.  The steps of a call run in the order type check, metadata,         *)
(* construct, quantize, load weights, return: no step of an earlier stage  *)
(* runs after a step of a later one, no statement runs twice, and a        *)
(* single-file call that returns has checked the type, read the metadata,  *)
(* constructed and loaded.  Stated for calls whose config is of the class  *)
(* the loader works with, where the claim is at its strongest.             *)
(***************************************************************************)
Stage(s) ==
    CASE s \in {"isinstance", "assert"}                    -> 1
      [] s \in {"open", "safe_load", "filter", "params"}   -> 2
      [] s \in {"load_class", "from_pretrained", "generic"} -> 3
      [] s = "quantize"                                    -> 4
      [] s \in {"load_file", "load_state_dict"}            -> 5
      [] s = "return"                                      -> 6
      [] OTHER                                             -> 0

C9_LinearSequence ==
    config = ExpectedConfig(loader) =>
        /\ \A i, j \in DOMAIN trace :
               (i < j /\ Stage(trace[i]) > 0 /\ Stage(trace[j]) > 0) =>
                   Stage(trace[i]) <= Stage(trace[j])
        /\ \A i, j \in DOMAIN trace : trace[i] = trace[j] => i = j
        /\ (outcome = "ok" /\ result.ctor \in {"AutoEncoder", "Flux"}) =>
               \A s \in {"isinstance", "open", "safe_load", "filter", "params",
                         "load_class", "load_file", "load_state_dict", "return"} : Has(s)

(***************************************************************************)
(* C10.  FluxVAELoader with a VAECheckpointConfig never turns a sub-part   *)
(* away: a call fails only on what it finds outside the program.  The same *)
(* request repeated with another sub-part runs the same statements and     *)
(* ends with the same outcome and the same object.                         *)
(***************************************************************************)
C10_VAEIgnoresSubPart ==
    /\ (loader = "FluxVAELoader" /\ config = "VAECheckpointConfig") =>
           /\ outcome # "UnsupportedSubPart"
           /\ (pc = "done" /\ outcome # "ok") => EnvFails(Last)
    /\ prev.set =>
           /\ prev.submodel_type # submodel_type
           /\ IsPrefix(trace, prev.trace)
           /\ pc = "done" =>
                  /\ trace = prev.trace
                  /\ outcome = prev.outcome
                  /\ result = prev.result

C10_Witness ==
    /\ pc = "done" /\ prev.set
    /\ prev.submodel_type = "None" /\ submodel_type = "Tokenizer"
    /\ outcome = "ok"
    /\ result.ctor = "AutoEncoder"

(***************************************************************************)
(* C5.  The filtered dict has exactly the keys of `params` that are field  *)
(* names, each with the value `params` gives it; every reordering of       *)
(* `params` filters to the same mapping; filtering the result again leaves *)
(* it as it is.                                                            *)
(***************************************************************************)
Reorderings(items) ==
    {[i \in DOMAIN items |-> items[p[i]]] : p \in Permutations(DOMAIN items)}

C5_FilterIsIntersection ==
    pc = "filter_out" =>
        LET P == flux_conf.params
            F == dataclass_fields
        IN  /\ IsDict(filtered_data)
            /\ DictKeys(filtered_data) = DictKeys(P) \cap F
            /\ \A k \in DictKeys(filtered_data) : DictGet(filtered_data, k) = DictGet(P, k)
            /\ \A q \in Reorderings(P) : AsMap(FilterData(q, F)) = AsMap(filtered_data)
            /\ Len(trace) = 2 => filtered_data = P

C5_Witness ==
    /\ pc = "filter_out"
    /\ flux_conf.params =
           << <<"resolution", 1>>, <<"in_channels", 2>>, <<"extra_unused_field", 1>> >>
    /\ dataclass_fields = AutoEncoderParamsFields
    /\ filtered_data = << <<"resolution", 1>>, <<"in_channels", 2>> >>

(***************************************************************************)
(* C6.  In each single-file loader the overlay statement, for any skeleton *)
(* names S and file names W, does not raise; afterwards the model has      *)
(* exactly the names S, each name of S in W holds the file's tensor        *)
(* itself, and each name of S outside W holds what it held.                *)
(***************************************************************************)
OverlayPcs == {"vae_70", "flux_183", "quant_230"}

OverlaySucceedsNonStrictly ==
    pc \in OverlayPcs =>
        /\ pc' \in {"vae_72", "flux_184", "quant_231"}
        /\ outcome' = "pending"
        /\ DOMAIN model'.tensors = DOMAIN model.tensors
        /\ \A n \in DOMAIN model.tensors :
               model'.tensors[n] = IF n \in DOMAIN sd THEN sd[n] ELSE model.tensors[n]
        /\ \A n \in DOMAIN model.tensors \cap DOMAIN sd :
               model'.tensors[n].storage = "file"

C6_NonStrictAssign == [][OverlaySucceedsNonStrictly]_vars

C6_Witness ==
    /\ pc = "flux_184"
    /\ DOMAIN model.tensors = {"A", "B", "C"}
    /\ env.weights = {"B", "C", "D"}
    /\ model.tensors["B"] = FileTensor /\ model.tensors["C"] = FileTensor
    /\ model.tensors["A"] = SkeletonTensor(FALSE)

====
